---- MODULE Spec2Model ----
(***************************************************************************)
(* Adventist Community Services API (src/main.py, src/schemas.py).         *)
(*                                                                         *)
(* Two collections of a document store, "service" and "booking", and the   *)
(* HTTP handlers over them.  Python values are tagged records, a Python    *)
(* str is a tuple of one-character strings, a document is a function from  *)
(* field names to values.  An exception is a value too: a handler body     *)
(* evaluates to Return(v) or Raise(e), and the try/except blocks of the    *)
(* source are translated clause by clause.                                 *)
(***************************************************************************)
EXTENDS Integers, Sequences, FiniteSets, TLC

VARIABLES service, booking, pc, req, resp, created

vars == <<service, booking, pc, req, resp, created>>

(***************************************************************************)
(* Bounds of the model.                                                    *)
(***************************************************************************)
MaxServices == 2
MaxBookings == 1

(***************************************************************************)
(* Python values.                                                          *)
(***************************************************************************)
None == [t |-> "None"]
Str(s) == [t |-> "str", s |-> s]
Bool(b) == [t |-> "bool", b |-> b]
List(e) == [t |-> "list", e |-> e]
DateTime(d) == [t |-> "datetime", d |-> d]
Oid(b) == [t |-> "ObjectId", b |-> b]
InvalidId == [t |-> "InvalidId"]

EmptyDoc == [k \in {} |-> None]

Rep(c, n) == [i \in 1..n |-> c]

HexDigits == <<"0", "1", "2", "3", "4", "5", "6", "7", "8", "9", "a", "b", "c", "d", "e", "f">>
UpperHexDigits == <<"0", "1", "2", "3", "4", "5", "6", "7", "8", "9", "A", "B", "C", "D", "E", "F">>

HexChars == {HexDigits[i] : i \in 1..16} \cup {UpperHexDigits[i] : i \in 1..16}
HexTable ==
  [c \in HexChars |-> (CHOOSE i \in 1..16 : HexDigits[i] = c \/ UpperHexDigits[i] = c) - 1]

IsHex(c) == c \in HexChars

HexVal(c) == HexTable[c]

\* bson.ObjectId(s): a str of 24 hex digits of either case is read as 12
\* bytes (bytes.fromhex); anything else raises InvalidId.
ObjectId(x) ==
  IF x.t = "str" /\ Len(x.s) = 24 /\ \A i \in 1..24 : IsHex(x.s[i])
  THEN Oid([i \in 1..12 |-> 16 * HexVal(x.s[2 * i - 1]) + HexVal(x.s[2 * i])])
  ELSE InvalidId

\* str(v) for the values serialize_doc applies it to: an ObjectId prints as
\* 24 lower-case hex digits, None prints as the four characters "None".
PyStr(v) ==
  IF v.t = "ObjectId"
  THEN Str([i \in 1..24 |-> IF i % 2 = 1 THEN HexDigits[(v.b[(i + 1) \div 2] \div 16) + 1]
                                         ELSE HexDigits[(v.b[i \div 2] % 16) + 1]])
  ELSE IF v.t = "None" THEN Str(<<"N", "o", "n", "e">>)
  ELSE v

\* datetime.isoformat(): the date as text.
isoformat(v) == Str(<<"2", "0", HexDigits[(v.d % 10) + 1], HexDigits[(v.d % 10) + 1]>>)

\* dict.get(key): the value, or None when the key is missing.
Get(doc, key) == IF key \in DOMAIN doc THEN doc[key] ELSE None

\* serialize_doc with "_id" popped before it is read.
serialize_doc_pop_first(doc) ==
  IF doc = None \/ DOMAIN doc = {} THEN doc
  ELSE [k \in (DOMAIN doc \ {"_id"}) \cup {"id"} |->
          IF k = "id" THEN PyStr(None)
          ELSE IF doc[k].t = "datetime" THEN isoformat(doc[k]) ELSE doc[k]]

serialize_doc(doc) ==
  IF doc = None \/ DOMAIN doc = {} THEN doc
  ELSE [k \in (DOMAIN doc \ {"_id"}) \cup {"id"} |->
          IF k = "id" THEN PyStr(Get(doc, "_id"))
          ELSE IF doc[k].t = "datetime" THEN isoformat(doc[k]) ELSE doc[k]]

(***************************************************************************)
(* Text: case folding and the regular expressions of the list filter.      *)
(***************************************************************************)
UpperLetters ==
  <<"A", "B", "C", "D", "E", "F", "G", "H", "I", "J", "K", "L", "M", "N", "O", "P", "Q", "R", "S", "T", "U", "V", "W", "X", "Y", "Z">>
LowerLetters ==
  <<"a", "b", "c", "d", "e", "f", "g", "h", "i", "j", "k", "l", "m", "n", "o", "p", "q", "r", "s", "t", "u", "v", "w", "x", "y", "z">>

UpperSet == {UpperLetters[i] : i \in 1..Len(UpperLetters)}
LowerSet == {LowerLetters[i] : i \in 1..Len(LowerLetters)}
LowerTable ==
  [c \in UpperSet |-> LowerLetters[CHOOSE i \in 1..Len(UpperLetters) : UpperLetters[i] = c]]
UpperTable ==
  [c \in LowerSet |-> UpperLetters[CHOOSE i \in 1..Len(LowerLetters) : LowerLetters[i] = c]]

\* str.lower() and str.upper() of one character.
Lower(c) == IF c \in UpperSet THEN LowerTable[c] ELSE c

Upper(c) == IF c \in LowerSet THEN UpperTable[c] ELSE c

\* One pattern character against one text character under option "i": "."
\* matches any character, every other character of the modelled alphabet
\* is a literal.
PatCharMatches(p, c) == p = "." \/ Lower(p) = Lower(c)

\* The pattern matches the text at position i.
RegexMatchAt(pat, s, i) ==
  /\ i + Len(pat) - 1 <= Len(s)
  /\ \A k \in 1..Len(pat) : PatCharMatches(pat[k], s[i + k - 1])

\* {"$regex": pat, "$options": "i"} on a text: an unanchored search; a
\* leading "^" and a trailing "$" anchor the match to the ends of the text.
RegexSearch(pat, s) ==
  LET aStart == Len(pat) > 0 /\ pat[1] = "^"
      rest == IF aStart THEN SubSeq(pat, 2, Len(pat)) ELSE pat
      aEnd == Len(rest) > 0 /\ rest[Len(rest)] = "$"
      core == IF aEnd THEN SubSeq(rest, 1, Len(rest) - 1) ELSE rest
  IN \E i \in 1..(Len(s) + 1) :
       /\ RegexMatchAt(core, s, i)
       /\ aStart => i = 1
       /\ aEnd => i + Len(core) - 1 = Len(s)

Regex(pat) == [op |-> "regex", pattern |-> pat, options |-> "i"]
Eq(v) == [op |-> "eq", value |-> v]
Or(clauses) == [op |-> "or", clauses |-> clauses]

\* One condition of a filter on one field of a document.  A regex on a
\* list field holds when some element matches.
FieldMatches(doc, field, cond) ==
  LET v == Get(doc, field) IN
  IF cond.op = "eq" THEN v = cond.value
  ELSE IF v.t = "str" THEN RegexSearch(cond.pattern, v.s)
  ELSE IF v.t = "list"
       THEN \E j \in 1..Len(v.e) : v.e[j].t = "str" /\ RegexSearch(cond.pattern, v.e[j].s)
  ELSE FALSE

\* A document matches a filter when every key of the filter holds; "$or"
\* holds when one of its clauses does.
DocMatches(doc, filter_dict) ==
  \A key \in DOMAIN filter_dict :
    IF key = "$or"
    THEN \E j \in 1..Len(filter_dict[key].clauses) :
           FieldMatches(doc, filter_dict[key].clauses[j].field, filter_dict[key].clauses[j].cond)
    ELSE FieldMatches(doc, key, filter_dict[key])

RECURSIVE FilterSeq(_, _)
FilterSeq(coll, filter_dict) ==
  IF coll = <<>> THEN <<>>
  ELSE (IF DocMatches(Head(coll), filter_dict) THEN <<Head(coll)>> ELSE <<>>)
       \o FilterSeq(Tail(coll), filter_dict)

(***************************************************************************)
(* Outcomes of a block of code, and the exceptions.                        *)
(***************************************************************************)
Return(v) == [kind |-> "return", value |-> v]
Raise(e) == [kind |-> "raise", exc |-> e]

StorageError == [exc |-> "StorageError", msg |-> "storage error"]
InvalidIdError == [exc |-> "InvalidId", msg |-> "not a valid ObjectId"]
HTTPException(status_code, detail) ==
  [exc |-> "HTTPException", status_code |-> status_code, detail |-> detail]

\* str(e) of a caught exception.
ExcStr(e) == IF e.exc = "HTTPException" THEN <<e.status_code, e.detail>> ELSE <<e.msg>>

\* isinstance(e, HTTPException); every exception is an instance of Exception.
IsHTTPException(e) == e.exc = "HTTPException"

\* The exception first raised inside a handler's body, "none" if none was.
Raised(outcome) == IF outcome.kind = "raise" THEN outcome.exc.exc ELSE "none"

(***************************************************************************)
(* The document store.                                                     *)
(***************************************************************************)
\* The identifier the store assigns to the n-th document of a collection.
NewObjectId(n) == Oid([i \in 1..12 |-> IF i = 12 THEN n ELSE 171])

\* create_document(collection, entity): the entity's fields, with a new
\* identity, appended to the collection; returns the identifier as a str.
create_document(coll, entity, fault) ==
  IF fault THEN [outcome |-> Raise(StorageError), coll |-> coll]
  ELSE LET oid == NewObjectId(Len(coll) + 1) IN
       [outcome |-> Return(PyStr(oid)),
        coll |-> Append(coll, [k \in DOMAIN entity \cup {"_id"} |->
                                 IF k = "_id" THEN oid ELSE entity[k]])]

\* get_documents(collection, filter): the matching documents, in insertion order.
get_documents(coll, filter_dict, fault) ==
  IF fault THEN Raise(StorageError) ELSE Return(FilterSeq(coll, filter_dict))

\* collection.find_one({"_id": oid}): the document of that identity, or None.
find_one(coll, oid, fault) ==
  IF fault THEN Raise(StorageError)
  ELSE IF \E i \in 1..Len(coll) : coll[i]["_id"] = oid
       THEN Return(coll[CHOOSE i \in 1..Len(coll) : coll[i]["_id"] = oid])
       ELSE Return(None)

(***************************************************************************)
(* Entities (src/schemas.py) and the requests the model sends.             *)
(***************************************************************************)
Service(title, description, category, location, tags) ==
  [title |-> Str(title), description |-> Str(description), category |-> Str(category),
   location |-> Str(location), address |-> None, provider_name |-> Str(<<"A", "D", "R", "A">>),
   contact_email |-> None, contact_phone |-> None, tags |-> List(tags),
   booking_required |-> Bool(TRUE)]

Booking(service_id, status) ==
  [service_id |-> service_id, full_name |-> Str(<<"A", "n", "a">>), email |-> None,
   phone |-> None, preferred_date |-> None, notes |-> None, status |-> Str(status)]

ServiceFields ==
  <<"title", "description", "category", "location", "address", "provider_name",
    "contact_email", "contact_phone", "tags", "booking_required">>
BookingFields ==
  <<"service_id", "full_name", "email", "phone", "preferred_date", "notes", "status">>

Services ==
  {Service(<<"F", "o", "o", "d">>, <<"P", "a", "n", "t", "r", "y">>,
           <<"H", "E", "A", "L", "T", "H">>, <<"L", "i", "m", "a">>,
           <<Str(<<"m", "e", "a", "l">>)>>),
   Service(<<"T", "u", "t", "o", "r", "i", "n", "g">>, <<"M", "a", "t", "h">>,
           <<"H", "e", "a", "l", "t", "h", "c", "a", "r", "e">>, <<"C", "u", "s", "c", "o">>,
           <<>>)}

UpperStr(x) == Str([i \in 1..Len(x.s) |-> Upper(x.s[i])])

\* Identifiers a client may send: those the store assigns, the first of them
\* in upper case too, one too short and one with a character that is no hex
\* digit.
IdInputs ==
  {PyStr(NewObjectId(n)) : n \in 1..MaxServices}
    \cup {UpperStr(PyStr(NewObjectId(1)))}
    \cup {Str(Rep("a", 23)), Str(Rep("g", 24))}

QInputs == {None, Str(<<"f", "o", "o", "d">>), Str(<<".">>)}
CategoryInputs == {None, Str(<<>>), Str(<<"H", "e", "a", "l", "t", "h">>), Str(<<"H", "E", "A", "L", "T", ".">>)}
StatusInputs == {None, Str(<<"p", "e", "n", "d", "i", "n", "g">>)}
BookingIdFilters == {None, PyStr(NewObjectId(1)), UpperStr(PyStr(NewObjectId(1)))}
Bookings == {Booking(sid, <<"p", "e", "n", "d", "i", "n", "g">>) : sid \in IdInputs}

Handlers == {"h1", "h2"}

\* Python truth of an optional str parameter: None and "" are false.
Truthy(x) == x # None /\ x.s # <<>>

(***************************************************************************)
(* The handlers: what the body of each returns or raises.                  *)
(***************************************************************************)
\* The HTTP response of a handler that returned or raised.
Response(op, outcome, raised) ==
  IF outcome.kind = "return"
  THEN [op |-> op, status |-> 200, body |-> outcome.value, raised |-> raised]
  ELSE IF IsHTTPException(outcome.exc)
  THEN [op |-> op, status |-> outcome.exc.status_code,
        body |-> [detail |-> outcome.exc.detail], raised |-> raised]
  ELSE [op |-> op, status |-> 500, body |-> [detail |-> "Internal Server Error"],
        raised |-> raised]

\* try: new_id = create_document(...); return {"id": new_id}
\* except Exception as e: raise HTTPException(500)
create_outcome(stored) ==
  IF stored.kind = "raise" THEN Raise(HTTPException(500, ExcStr(stored.exc)))
  ELSE Return([id |-> stored.value])

list_services_filter(q, category) ==
  (IF Truthy(q)
   THEN "$or" :> Or(<<[field |-> "title", cond |-> Regex(q.s)],
                      [field |-> "description", cond |-> Regex(q.s)],
                      [field |-> "tags", cond |-> Regex(q.s)],
                      [field |-> "category", cond |-> Regex(q.s)],
                      [field |-> "location", cond |-> Regex(q.s)]>>)
   ELSE EmptyDoc)
  @@ (IF Truthy(category)
      THEN "category" :> Regex(<<"^">> \o category.s \o <<"$">>)
      ELSE EmptyDoc)

list_bookings_filter(service_id, status) ==
  (IF Truthy(service_id) THEN "service_id" :> Eq(service_id) ELSE EmptyDoc)
  @@ (IF Truthy(status) THEN "status" :> Eq(status) ELSE EmptyDoc)

\* try: docs = get_documents(...); return [serialize_doc(d) for d in docs]
\* except Exception as e: raise HTTPException(500)
list_outcome(found) ==
  IF found.kind = "raise" THEN Raise(HTTPException(500, ExcStr(found.exc)))
  ELSE Return([i \in 1..Len(found.value) |-> serialize_doc(found.value[i])])

\* The body of get_service's try block.
get_service_try(svc, service_id, fault) ==
  LET oid == ObjectId(service_id) IN
  IF oid = InvalidId THEN Raise(InvalidIdError)
  ELSE LET doc == find_one(svc, oid, fault) IN
       IF doc.kind = "raise" THEN doc
       ELSE IF doc.value = None \/ DOMAIN doc.value = {}
       THEN Raise(HTTPException(404, "Service not found"))
       ELSE Return(serialize_doc(doc.value))

\* except Exception as e: raise HTTPException(400, str(e))
get_service_outcome(tried) ==
  IF tried.kind = "raise" THEN Raise(HTTPException(400, ExcStr(tried.exc)))
  ELSE tried

\* The body of create_booking's inner try block ("Verify service exists").
create_booking_try(svc, b, fault) ==
  LET oid == ObjectId(b.service_id) IN
  IF oid = InvalidId THEN Raise(InvalidIdError)
  ELSE LET found == find_one(svc, oid, fault) IN
       IF found.kind = "raise" THEN found
       ELSE IF found.value = None
       THEN Raise(HTTPException(404, "Service not found for booking"))
       ELSE Return(None)

\* create_booking with the inner except clause swallowing what was raised.
create_booking_verify_swallow(tried) ==
  IF tried.kind = "raise" THEN Return(None) ELSE tried

\* create_booking without the inner try block: only the outer clauses apply.
create_booking_verify_outer_only(tried) ==
  IF tried.kind = "raise" /\ ~IsHTTPException(tried.exc)
  THEN Raise(HTTPException(500, ExcStr(tried.exc)))
  ELSE tried

\* The inner "except Exception: raise HTTPException(400)", then the outer
\* "except HTTPException: raise" and "except Exception: raise HTTPException(500)".
create_booking_verify(tried) ==
  LET inner == IF tried.kind = "raise"
               THEN Raise(HTTPException(400, "Invalid service_id"))
               ELSE tried
  IN IF inner.kind = "raise" /\ ~IsHTTPException(inner.exc)
     THEN Raise(HTTPException(500, ExcStr(inner.exc)))
     ELSE inner

\* new_id = create_document("booking", booking); return {"id": new_id}, under
\* the outer except clauses.
create_booking_insert(stored) ==
  IF stored.kind = "raise"
  THEN (IF IsHTTPException(stored.exc) THEN stored
        ELSE Raise(HTTPException(500, ExcStr(stored.exc))))
  ELSE Return([id |-> stored.value])

get_schema_outcome ==
  Return(<<[name |-> "service", fields |-> ServiceFields],
           [name |-> "booking", fields |-> BookingFields]>>)

(***************************************************************************)
(* The state machine.  service and booking are the two collections, in     *)
(* insertion order.  A create_booking handler between its existence check  *)
(* and its insert is at pc "insert", its payload in req.  resp is the      *)
(* last response sent, with the exception first raised inside the handler. *)
(* created remembers, for each identifier create_service returned, the     *)
(* payload it was returned for.                                            *)
(***************************************************************************)
NoRequest == [service_id |-> None]
NoResponse == [op |-> "none", status |-> 0, body |-> None, raised |-> "none"]

Init ==
  /\ service = <<>>
  /\ booking = <<>>
  /\ pc = [h \in Handlers |-> "idle"]
  /\ req = [h \in Handlers |-> NoRequest]
  /\ resp = NoResponse
  /\ created = {}

create_service(s, fault) ==
  /\ Len(service) < MaxServices
  /\ LET stored == create_document(service, s, fault)
         outcome == create_outcome(stored.outcome)
     IN /\ service' = stored.coll
        /\ resp' = Response("create_service", outcome, Raised(stored.outcome))
        /\ created' = IF outcome.kind = "return"
                      THEN created \cup {[id |-> outcome.value.id, payload |-> s]}
                      ELSE created
  /\ UNCHANGED <<booking, pc, req>>

list_services(q, category, fault) ==
  /\ LET found == get_documents(service, list_services_filter(q, category), fault)
     IN resp' = Response("list_services", list_outcome(found), Raised(found))
  /\ UNCHANGED <<service, booking, pc, req, created>>

\* get_service fetching with find_one_and_delete.
get_service_and_delete(service_id, fault) ==
  /\ LET tried == get_service_try(service, service_id, fault)
     IN /\ resp' = Response("get_service", get_service_outcome(tried), Raised(tried))
        /\ service' = IF tried.kind = "return"
                      THEN SelectSeq(service, LAMBDA d : d["_id"] # ObjectId(service_id))
                      ELSE service
  /\ UNCHANGED <<booking, pc, req, created>>

get_service(service_id, fault) ==
  /\ LET tried == get_service_try(service, service_id, fault)
     IN resp' = Response("get_service", get_service_outcome(tried), Raised(tried))
  /\ UNCHANGED <<service, booking, pc, req, created>>

\* create_booking storing the booking before it verifies the service.
create_booking_store_first(h, b, fault) ==
  /\ pc[h] = "idle"
  /\ Len(booking) + Cardinality({g \in Handlers : pc[g] = "insert"}) < MaxBookings
  /\ LET tried == create_booking_try(service, b, fault)
         outcome == create_booking_verify(tried)
     IN IF outcome.kind = "raise"
        THEN /\ resp' = Response("create_booking", outcome, Raised(tried))
             /\ booking' = create_document(booking, b, FALSE).coll
             /\ UNCHANGED <<pc, req>>
        ELSE /\ pc' = [pc EXCEPT ![h] = "insert"]
             /\ req' = [req EXCEPT ![h] = b]
             /\ UNCHANGED <<resp, booking>>
  /\ UNCHANGED <<service, created>>

\* create_booking up to the end of its existence check.  A request is taken
\* only while the booking collection has room for it.
create_booking_check(h, b, fault) ==
  /\ pc[h] = "idle"
  /\ Len(booking) + Cardinality({g \in Handlers : pc[g] = "insert"}) < MaxBookings
  /\ LET tried == create_booking_try(service, b, fault)
         outcome == create_booking_verify(tried)
     IN IF outcome.kind = "raise"
        THEN /\ resp' = Response("create_booking", outcome, Raised(tried))
             /\ UNCHANGED <<pc, req>>
        ELSE /\ pc' = [pc EXCEPT ![h] = "insert"]
             /\ req' = [req EXCEPT ![h] = b]
             /\ UNCHANGED resp
  /\ UNCHANGED <<service, booking, created>>

\* create_booking from the insert to its response.
create_booking_store(h, fault) ==
  /\ pc[h] = "insert"
  /\ Len(booking) < MaxBookings
  /\ LET stored == create_document(booking, req[h], fault)
     IN /\ booking' = stored.coll
        /\ resp' = Response("create_booking", create_booking_insert(stored.outcome),
                            Raised(stored.outcome))
  /\ pc' = [pc EXCEPT ![h] = "idle"]
  /\ req' = [req EXCEPT ![h] = NoRequest]
  /\ UNCHANGED <<service, created>>

list_bookings(service_id, status, fault) ==
  /\ LET found == get_documents(booking, list_bookings_filter(service_id, status), fault)
     IN resp' = Response("list_bookings", list_outcome(found), Raised(found))
  /\ UNCHANGED <<service, booking, pc, req, created>>

get_schema ==
  /\ resp' = Response("get_schema", get_schema_outcome, "none")
  /\ UNCHANGED <<service, booking, pc, req, created>>

Next ==
  \/ \E s \in Services, fault \in BOOLEAN : create_service(s, fault)
  \/ \E q \in QInputs, category \in CategoryInputs, fault \in BOOLEAN :
       list_services(q, category, fault)
  \/ \E service_id \in IdInputs, fault \in BOOLEAN : get_service(service_id, fault)
  \/ \E h \in Handlers, b \in Bookings, fault \in BOOLEAN : create_booking_check(h, b, fault)
  \/ \E h \in Handlers, fault \in BOOLEAN : create_booking_store(h, fault)
  \/ \E service_id \in BookingIdFilters, status \in StatusInputs, fault \in BOOLEAN :
       list_bookings(service_id, status, fault)
  \/ get_schema

Spec == Init /\ [][Next]_vars

(***************************************************************************)
(* Properties.                                                             *)
(***************************************************************************)
ReadOps == {"list_services", "get_service", "list_bookings", "get_schema"}

ServiceIds == {service[i]["_id"] : i \in 1..Len(service)}

\* C1: a create_booking whose service_id is well formed and matches no
\* service (the handler raised its "Service not found for booking"
\* HTTPException) is answered with status 404.
C1_UnknownServiceIs404 ==
  (resp.op = "create_booking" /\ resp.raised = "HTTPException") => resp.status = 404

\* C2: a get_service whose identifier is well formed and matches no service
\* (the handler raised its "Service not found" HTTPException) is answered
\* with status 404, and a get_service is answered with 400 only when the
\* identifier is malformed.
C2_AbsentServiceIs404 ==
  /\ (resp.op = "get_service" /\ resp.raised = "HTTPException") => resp.status = 404
  /\ (resp.op = "get_service" /\ resp.status = 400) => resp.raised = "InvalidId"

\* C3: a response to an operation in which the store raised a storage
\* failure has status 500.
C3_StorageFailureIs500 ==
  resp.raised = "StorageError" => resp.status = 500

\* C4: every stored booking's service_id reads as the identifier of a
\* document of the service collection, in every reachable state (so also in
\* the state right after the booking's insert), whatever ran between the
\* existence check and the insert.
C4_BookingRefersToService ==
  \A i \in 1..Len(booking) :
    /\ ObjectId(booking[i].service_id) # InvalidId
    /\ ObjectId(booking[i].service_id) \in ServiceIds

\* C4 witness: a booking was stored by a create_booking that answered 200,
\* with two services in the store.
C4_Witness ==
  /\ Len(booking) >= 1
  /\ Len(service) >= 2
  /\ resp.op = "create_booking"
  /\ resp.status = 200

\* C5: a step in which create_booking answers without success at its
\* existence check (the handler stays out of its insert) leaves the service
\* and the booking collection as they were.
C5_FailedCheckCreatesNothing ==
  [][(resp'.op = "create_booking" /\ resp'.status # 200 /\ pc' = pc)
       => (service' = service /\ booking' = booking)]_vars

\* C5 witness: create_booking answered 400 for a service_id that is
\* malformed or not found, with a service in the store.
C5_Witness ==
  /\ resp.op = "create_booking"
  /\ resp.status # 200
  /\ resp.raised \in {"InvalidId", "HTTPException"}
  /\ Len(service) >= 1
  /\ Len(booking) = 0

\* C6: create_booking answers 400 for every payload whose service_id is not
\* in the identifier format, in every state of the store and whether or not
\* the store fails.
C6_MalformedIdIs400 ==
  /\ (resp.op = "create_booking" /\ resp.raised = "InvalidId") => resp.status = 400
  /\ \A b \in Bookings, fault \in BOOLEAN :
       ObjectId(b.service_id) = InvalidId =>
         Response("create_booking",
                  create_booking_verify(create_booking_try(service, b, fault)),
                  "InvalidId").status = 400

\* C6 witness: create_booking answered a malformed service_id.
C6_Witness ==
  /\ resp.op = "create_booking"
  /\ resp.raised = "InvalidId"
  /\ resp.status = 400
  /\ Len(service) >= 1

\* C7: serialize_doc applied twice to a stored document gives what one
\* application gives.
C7_SerializeIdempotent ==
  /\ \A i \in 1..Len(service) :
       serialize_doc(serialize_doc(service[i])) = serialize_doc(service[i])
  /\ \A i \in 1..Len(booking) :
       serialize_doc(serialize_doc(booking[i])) = serialize_doc(booking[i])

\* The document create-then-get is to yield: the payload's fields and the
\* returned id.
Expected(c) ==
  [k \in DOMAIN c.payload \cup {"id"} |-> IF k = "id" THEN c.id ELSE c.payload[k]]

\* C8: in every reachable state, for every identifier create_service has
\* returned, get_service on that identifier (the store not failing during
\* the lookup) answers 200 with the created payload's fields and that id.
C8_CreateThenGet ==
  \A c \in created :
    Response("get_service", get_service_outcome(get_service_try(service, c.id, FALSE)), "none")
      = [op |-> "get_service", status |-> 200, body |-> Expected(c), raised |-> "none"]

\* C8 witness: get_service answered 200 with the first created service's
\* payload and id after a second service was created.
C8_Witness ==
  /\ resp.op = "get_service"
  /\ resp.status = 200
  /\ Len(service) = 2
  /\ \E c \in created : c.id = PyStr(service[1]["_id"]) /\ resp.body = Expected(c)

\* Case-insensitive "q occurs in s" and "s equals c".
Contains(s, q) ==
  \E i \in 1..(Len(s) - Len(q) + 1) : \A k \in 1..Len(q) : Lower(s[i + k - 1]) = Lower(q[k])
EqualsIgnoreCase(s, c) ==
  Len(s) = Len(c) /\ \A k \in 1..Len(s) : Lower(s[k]) = Lower(c[k])

\* The services the claim says list_services(q, category) returns; an empty
\* parameter counts as absent.
ClaimedMatch(d, q, category) ==
  /\ Truthy(q) =>
       \/ \E f \in {"title", "description", "category", "location"} : Contains(d[f].s, q.s)
       \/ \E j \in 1..Len(d.tags.e) : Contains(d.tags.e[j].s, q.s)
  /\ Truthy(category) => EqualsIgnoreCase(d.category.s, category.s)

\* C9: list_services returns exactly the stored services that contain q
\* (without regard to case) in title, description, a tag, category or
\* location, and whose category equals the category parameter without
\* regard to case.
C9_ListServicesMatches ==
  \A q \in QInputs, category \in CategoryInputs :
    LET listed == list_outcome(get_documents(service, list_services_filter(q, category), FALSE)).value
    IN {listed[i] : i \in 1..Len(listed)}
         = {serialize_doc(service[i]) : i \in {j \in 1..Len(service) : ClaimedMatch(service[j], q, category)}}

\* C10: no step changes or removes a document of the service collection,
\* and a step of a read operation changes neither collection.
C10_ServicesImmutable ==
  [][/\ Len(service') >= Len(service)
     /\ \A i \in 1..Len(service) : service'[i] = service[i]
     /\ (resp'.op \in ReadOps /\ pc' = pc) => (service' = service /\ booking' = booking)]_vars

\* C10 witness: a read operation answered with two services and a booking
\* in the store.
C10_Witness ==
  /\ resp.op \in ReadOps
  /\ resp.status = 200
  /\ Len(service) = 2
  /\ Len(booking) = 1

====
